---- MODULE Spec2Model ----
(***************************************************************************)
(* Model of src/src/ai_programming_tutor.py: the request router            *)
(* (chat_router), the three streaming adapters (chat_gpt_answer_stream,    *)
(* chat_claude_answer_stream, chat_llama_answer_stream) and the outputs    *)
(* the UI binds to them (create_ui).                                       *)
(*                                                                         *)
(* A Python str is a sequence of atoms.  A character typed by the user or  *)
(* sent by a backend is one atom; a string literal of the source is one    *)
(* atom holding the literal.  str concatenation is \o, str.strip() is      *)
(* strip.  A Python list is an object on `heap`, named by its index, so    *)
(* that `a + b` (a new list) and `a += b` (the same list, extended) are    *)
(* different.                                                              *)
(***************************************************************************)
EXTENDS Integers, Sequences, FiniteSets, TLC

\* ------------------------------------------------------------------ bounds
MaxCodeLen == 2      \* longest code typed by the user
MaxQuestionLen == 1  \* longest question typed by the user
MaxHist == 1         \* longest input history, in turns
MaxChunks == 2       \* most chunks a backend delivers for one request

\* ------------------------------------------------------------ input domains
Whitespace == {" ", "\n"}
InputChars == {" ", "x"}

RECURSIVE SeqsUpTo(_, _)
SeqsUpTo(S, n) ==
    IF n = 0 THEN {<<>>}
    ELSE LET shorter == SeqsUpTo(S, n - 1)
         IN  shorter \cup {Append(s, x) : s \in {t \in shorter : Len(t) = n - 1}, x \in S}

CodeStrings == SeqsUpTo(InputChars, MaxCodeLen)
QuestionStrings == SeqsUpTo(InputChars, MaxQuestionLen)
HistoryTurns == {[role |-> "user", content |-> <<"x">>],
                 [role |-> "assistant", content |-> <<"b">>]}
Histories == SeqsUpTo(HistoryTurns, MaxHist)
ModelNames == {"GPT", "Claude", "Llama", "gpt", "Gemini"}
Backends == {"GPT", "Claude", "Llama"}
ErrMsgs == {<<"e">>}

\* What a backend can deliver as one chunk of its stream: a text delta
\* (possibly empty), a chunk that carries no text, or a chunk of unexpected
\* shape whose inspection raises.
Chunks == {[kind |-> "text", text |-> <<>>],
           [kind |-> "text", text |-> <<"b">>],
           [kind |-> "text", text |-> <<"c">>],
           [kind |-> "notext", text |-> <<>>],
           [kind |-> "malformed", text |-> <<>>]}

\* ---------------------------------------------------------------- constants
SYSTEM_PROMPT == <<"SYSTEM_PROMPT">>
Fence == "<three backticks>"   \* the fence of a Markdown code block
CodeIntro == <<"Please explain this code:\n\n", Fence, "python\n">>
CodeOutro == <<"\n", Fence, "\n\n">>
UnknownModelText == <<"Unknown model selected.">>
Unbound == <<"<unbound>">>

\* ------------------------------------------------------------------- state
VARIABLES
    code, question, model_name, \* arguments of chat_router
    history,                    \* argument of chat_router: the list object passed in
    heap,                       \* list objects: heap[r] is the content of list r
    pc,                         \* position of the generator
    user_content, messages, response_text, \* locals of the running adapter
    sent,                       \* streaming calls opened on the backends
    consumed,                   \* chunks the backend has delivered so far
    error,                      \* <<e>> once the backend call has raised e
    out,                        \* the tuples yielded so far
    chatbot, code_input, question_input, \* UI components the yields are bound to
    history0,                   \* content of the input history when the call began
    emittedAt,                  \* content of each yielded list when it was yielded
    last_event                  \* what the UI did last: load, submit, step, yield, clear

vars == <<code, question, model_name, history, heap, pc, user_content, messages,
          response_text, sent, consumed, error, out, chatbot, code_input,
          question_input, history0, emittedAt, last_event>>

\* ----------------------------------------------------------- pure functions
RECURSIVE lstrip(_)
lstrip(s) == IF s # <<>> /\ Head(s) \in Whitespace THEN lstrip(Tail(s)) ELSE s

RECURSIVE rstrip(_)
rstrip(s) ==
    IF s # <<>> /\ s[Len(s)] \in Whitespace THEN rstrip(SubSeq(s, 1, Len(s) - 1)) ELSE s

strip(s) == rstrip(lstrip(s))

\* lines 128-132
gpt_user_content(c, q) ==
    (IF c # <<>> THEN CodeIntro \o strip(c) \o CodeOutro ELSE <<>>)
        \o (IF q # <<>> THEN strip(q) ELSE <<>>)

\* claude_user_content with the question appended as typed, not stripped
claude_user_content_unstripped(c, q) ==
    (IF c # <<>> THEN CodeIntro \o strip(c) \o CodeOutro ELSE <<>>)
        \o (IF q # <<>> THEN q ELSE <<>>)

\* lines 180-184
claude_user_content(c, q) ==
    (IF c # <<>> THEN CodeIntro \o strip(c) \o CodeOutro ELSE <<>>)
        \o (IF q # <<>> THEN strip(q) ELSE <<>>)

\* lines 233-237
llama_user_content(c, q) ==
    (IF c # <<>> THEN CodeIntro \o strip(c) \o CodeOutro ELSE <<>>)
        \o (IF q # <<>> THEN strip(q) ELSE <<>>)

UserContent(b, c, q) ==
    CASE b = "GPT" -> gpt_user_content(c, q)
      [] b = "Claude" -> claude_user_content(c, q)
      [] b = "Llama" -> llama_user_content(c, q)

\* the loop `for msg in history: messages.append({"role":..., "content":...})`
HistoryMessages(h) == [i \in 1..Len(h) |-> [role |-> h[i].role, content |-> h[i].content]]

UserMessage(uc) == IF uc # <<>> THEN <<[role |-> "user", content |-> uc]>> ELSE <<>>

\* lines 123-135
gpt_messages(h, uc) ==
    <<[role |-> "system", content |-> SYSTEM_PROMPT]>> \o HistoryMessages(h) \o UserMessage(uc)

\* lines 176-187
claude_messages(h, uc) == HistoryMessages(h) \o UserMessage(uc)

\* lines 228-240
llama_messages(h, uc) ==
    <<[role |-> "system", content |-> SYSTEM_PROMPT]>> \o HistoryMessages(h) \o UserMessage(uc)

Messages(b, h, uc) ==
    CASE b = "GPT" -> gpt_messages(h, uc)
      [] b = "Claude" -> claude_messages(h, uc)
      [] b = "Llama" -> llama_messages(h, uc)

\* the `system=` keyword of the call: only Claude's call has one (line 195)
SystemField(b) == IF b = "Claude" THEN SYSTEM_PROMPT ELSE <<>>

\* line 147: `if chunk.choices[0].delta.content:` (None and "" are falsy)
gpt_accepts(chunk) == chunk.kind = "text" /\ chunk.text # <<>>

\* claude_accepts without the hasattr test: any well-formed chunk is taken
claude_accepts_any_delta(chunk) == chunk.kind # "malformed"

\* line 199: `chunk.type == "content_block_delta" and hasattr(chunk.delta, 'text')`
claude_accepts(chunk) == chunk.kind = "text"

\* line 251: `"message" in chunk and "content" in chunk["message"]`
llama_accepts(chunk) == chunk.kind = "text"

Accepts(b, chunk) ==
    CASE b = "GPT" -> gpt_accepts(chunk)
      [] b = "Claude" -> claude_accepts(chunk)
      [] b = "Llama" -> llama_accepts(chunk)

\* lines 156, 208, 260
gpt_error_msg(e) == <<"GPT Error: ">> \o e
claude_error_msg(e) == <<"Claude Error: ">> \o e
llama_error_msg(e) == <<"Llama Error: ">> \o e

ErrorMsg(b, e) ==
    CASE b = "GPT" -> gpt_error_msg(e)
      [] b = "Claude" -> claude_error_msg(e)
      [] b = "Llama" -> llama_error_msg(e)

\* Accumulate with the delta put in front of the text
AccumulateInFront(text, delta) == delta \o text

\* `response_text += <delta>` (lines 148, 200, 252)
Accumulate(text, delta) == text \o delta

\* NewTurns without the user dict
NewTurnsAssistantOnly(uc, body) == << [role |-> "assistant", content |-> body] >>

\* NewTurns with the assistant dict put before the user dict
NewTurnsSwapped(uc, body) ==
    <<[role |-> "assistant", content |-> body], [role |-> "user", content |-> uc]>>

\* the two dicts of `history + [{...user...}, {...assistant...}]`
NewTurns(uc, body) ==
    <<[role |-> "user", content |-> uc], [role |-> "assistant", content |-> body]>>

\* line 288
UnknownTurns == << [role |-> "assistant", content |-> UnknownModelText] >>

\* list_add that extends its operand instead of building a new list
list_add_aliasing(hp, r, items) == [heap |-> [hp EXCEPT ![r] = @ \o items], ref |-> r]

\* `lst + items`: a new list object; the operand is left alone
list_add(hp, r, items) == [heap |-> Append(hp, hp[r] \o items), ref |-> Len(hp) + 1]

\* `lst += items`: list.__iadd__ extends the same object
list_iadd(hp, r, items) == [heap |-> [hp EXCEPT ![r] = @ \o items], ref |-> r]

\* InTry with the call that opens the stream left outside the try block
InTryLoopOnly(site) == site \in {"iterate", "chunk"}

\* the places of the adapter where the backend can raise, and those the
\* try block (lines 138-153, 190-205, 243-257) encloses
InTry(site) == site \in {"open", "iterate", "chunk"}

\* Dispatch matching the selector without regard to case
DispatchAnyCase(name) ==
    IF name \in {"GPT", "gpt"} THEN "GPT"
    ELSE IF name = "Claude" THEN "Claude"
    ELSE IF name = "Llama" THEN "Llama"
    ELSE "unknown"

\* Dispatch with the Claude branch calling the Llama adapter
DispatchWrongAdapter(name) ==
    IF name = "GPT" THEN "GPT"
    ELSE IF name = "Claude" THEN "Llama"
    ELSE IF name = "Llama" THEN "Llama"
    ELSE "unknown"

\* lines 281-287: exact match on the selector
Dispatch(name) ==
    IF name = "GPT" THEN "GPT"
    ELSE IF name = "Claude" THEN "Claude"
    ELSE IF name = "Llama" THEN "Llama"
    ELSE "unknown"

\* ----------------------------------------------------------------- actions
Init ==
    /\ code \in CodeStrings
    /\ question \in QuestionStrings
    /\ model_name \in ModelNames
    /\ history0 \in Histories
    /\ history = 1
    /\ heap = <<history0>>
    /\ pc = "start"
    /\ user_content = Unbound
    /\ messages = <<>>
    /\ response_text = <<>>
    /\ sent = <<>>
    /\ consumed = <<>>
    /\ error = <<>>
    /\ out = <<>>
    /\ emittedAt = <<>>
    /\ chatbot = history0
    /\ code_input = code
    /\ question_input = question
    /\ last_event = "submit"

\* Yield that hands back the inputs it was given instead of "", ""
YieldKeepingInputs(new) ==
    /\ heap' = new.heap
    /\ out' = Append(out, [history |-> new.ref, code |-> code, question |-> question])
    /\ emittedAt' = Append(emittedAt, new.heap[new.ref])
    /\ chatbot' = new.heap[new.ref]
    /\ code_input' = code
    /\ question_input' = question
    /\ last_event' = "yield"

\* `yield lst, "", ""` with the outputs bound at lines 346-350
Yield(new) ==
    /\ heap' = new.heap
    /\ out' = Append(out, [history |-> new.ref, code |-> <<>>, question |-> <<>>])
    /\ emittedAt' = Append(emittedAt, new.heap[new.ref])
    /\ chatbot' = new.heap[new.ref]
    /\ code_input' = <<>>
    /\ question_input' = <<>>
    /\ last_event' = "yield"

NoYield ==
    /\ last_event' = "step"
    /\ UNCHANGED <<heap, out, emittedAt, chatbot, code_input, question_input>>

\* the backend raised e at `site`: the except clause (lines 155-161, 207-213,
\* 259-265) when the site is inside the try block, else the exception leaves
\* the generator
Except(b, uc, e, site) ==
    /\ error' = <<e>>
    /\ IF InTry(site)
       THEN /\ Yield(list_add(heap, history, NewTurns(uc, ErrorMsg(b, e))))
            /\ pc' = "last"
       ELSE /\ NoYield
            /\ pc' = "raised"

\* lines 281-286: the request runs in adapter b
Routed(b) == Dispatch(model_name) = b

\* lines 123-144: build the request and open the streaming call
Compose(b) ==
    /\ Routed(b)
    /\ pc = "start"
    /\ user_content' = UserContent(b, code, question)
    /\ messages' = Messages(b, heap[history], user_content')
    /\ response_text' = <<>>
    /\ sent' = Append(sent, [backend |-> b, messages |-> messages', system |-> SystemField(b)])
    /\ UNCHANGED <<code, question, model_name, history, consumed, history0>>

\* the call returns a stream
Open(b) ==
    /\ Compose(b)
    /\ pc' = "iter"
    /\ NoYield
    /\ UNCHANGED error

\* the call raises
OpenRaises(b) ==
    \E e \in ErrMsgs :
        /\ Compose(b)
        /\ Except(b, user_content', e, "open")

\* one iteration of `for chunk in stream:` on a chunk the backend delivers
NextChunk(b) ==
    \E chunk \in Chunks :
        /\ Routed(b)
        /\ pc = "iter"
        /\ Len(consumed) < MaxChunks
        /\ consumed' = Append(consumed, chunk)
        /\ IF chunk.kind = "malformed"
           THEN /\ \E e \in ErrMsgs : Except(b, user_content, e, "chunk")
                /\ UNCHANGED response_text
           ELSE IF Accepts(b, chunk)
           THEN /\ response_text' = Accumulate(response_text, chunk.text)
                /\ Yield(list_add(heap, history, NewTurns(user_content, response_text')))
                /\ UNCHANGED <<pc, error>>
           ELSE /\ NoYield
                /\ UNCHANGED <<response_text, pc, error>>
        /\ UNCHANGED <<code, question, model_name, history, user_content, messages,
                       sent, history0>>

\* the stream raises while the loop waits for the next chunk
IterRaises(b) ==
    \E e \in ErrMsgs :
        /\ Routed(b)
        /\ pc = "iter"
        /\ Except(b, user_content, e, "iterate")
        /\ UNCHANGED <<code, question, model_name, history, user_content, messages,
                       response_text, sent, consumed, history0>>

\* the stream is exhausted: the loop ends and the generator returns
StreamEnds(b) ==
    /\ Routed(b)
    /\ pc = "iter"
    /\ pc' = "done"
    /\ NoYield
    /\ UNCHANGED <<code, question, model_name, history, user_content, messages,
                   response_text, sent, consumed, error, history0>>

\* Return that yields the last conversation once more before returning
ReturnYieldsAgain(b) ==
    /\ Dispatch(model_name) = b
    /\ pc = "last"
    /\ pc' = "done"
    /\ heap' = heap
    /\ out' = Append(out, out[Len(out)])
    /\ emittedAt' = Append(emittedAt, emittedAt[Len(emittedAt)])
    /\ last_event' = "yield"
    /\ UNCHANGED <<chatbot, code_input, question_input>>
    /\ UNCHANGED <<code, question, model_name, history, user_content, messages,
                   response_text, sent, consumed, error, history0>>

\* the generator is resumed after its last yield and returns
Return(b) ==
    /\ Routed(b)
    /\ pc = "last"
    /\ pc' = "done"
    /\ NoYield
    /\ UNCHANGED <<code, question, model_name, history, user_content, messages,
                   response_text, sent, consumed, error, history0>>

chat_gpt_answer_stream ==
    \/ Open("GPT")
    \/ OpenRaises("GPT")
    \/ NextChunk("GPT")
    \/ IterRaises("GPT")
    \/ StreamEnds("GPT")
    \/ Return("GPT")

chat_claude_answer_stream ==
    \/ Open("Claude")
    \/ OpenRaises("Claude")
    \/ NextChunk("Claude")
    \/ IterRaises("Claude")
    \/ StreamEnds("Claude")
    \/ Return("Claude")

chat_llama_answer_stream ==
    \/ Open("Llama")
    \/ OpenRaises("Llama")
    \/ NextChunk("Llama")
    \/ IterRaises("Llama")
    \/ StreamEnds("Llama")
    \/ Return("Llama")

\* lines 287-289
UnknownModel ==
    /\ Routed("unknown")
    /\ pc = "start"
    /\ Yield(list_iadd(heap, history, UnknownTurns))
    /\ pc' = "last"
    /\ UNCHANGED <<code, question, model_name, history, user_content, messages,
                   response_text, sent, consumed, error, history0>>

chat_router ==
    \/ chat_gpt_answer_stream
    \/ chat_claude_answer_stream
    \/ chat_llama_answer_stream
    \/ UnknownModel
    \/ Return("unknown")

Next == chat_router

Spec == Init /\ [][Next]_vars

\* ------------------------------------------------------------------ session
MaxConv == 3   \* a submission is made only while fewer turns than this are displayed

\* what the user types before pressing Explain
SessionCodes == {<<>>, <<" ", "x">>}
SessionQuestions == {<<>>, <<"x">>}

\* ClearOutputs that leaves the question field as it is
ClearOutputsKeepingQuestion == [chatbot |-> <<>>, code |-> <<>>, question |-> question_input]

\* line 353: `lambda: ([], "", "")`
ClearOutputs == [chatbot |-> <<>>, code |-> <<>>, question |-> <<>>]

\* lines 309-334: the components as created
InitSession ==
    /\ chatbot = <<>>
    /\ code_input = <<>>
    /\ question_input = <<>>
    /\ code = <<>>
    /\ question = <<>>
    /\ model_name = "GPT"
    /\ history0 = <<>>
    /\ history = 1
    /\ heap = << <<>> >>
    /\ pc = "idle"
    /\ user_content = Unbound
    /\ messages = <<>>
    /\ response_text = <<>>
    /\ sent = <<>>
    /\ consumed = <<>>
    /\ error = <<>>
    /\ out = <<>>
    /\ emittedAt = <<>>
    /\ last_event = "load"

\* lines 346-350: the user fills the fields, picks a model of the dropdown and
\* presses Explain once the previous request has finished; chat_router is
\* called with the values of the components, the history being a list of its own
Submit ==
    \E c \in SessionCodes, q \in SessionQuestions, m \in Backends :
        /\ pc \in {"idle", "done"}
        /\ Len(chatbot) < MaxConv
        /\ code_input' = c
        /\ question_input' = q
        /\ code' = c
        /\ question' = q
        /\ model_name' = m
        /\ history0' = chatbot
        /\ history' = 1
        /\ heap' = <<chatbot>>
        /\ pc' = "start"
        /\ user_content' = Unbound
        /\ messages' = <<>>
        /\ response_text' = <<>>
        /\ sent' = <<>>
        /\ consumed' = <<>>
        /\ error' = <<>>
        /\ out' = <<>>
        /\ emittedAt' = <<>>
        /\ last_event' = "submit"
        /\ UNCHANGED chatbot

\* lines 352-357: Clear is not queued, it runs whatever the request is doing
Clear ==
    /\ chatbot' = ClearOutputs.chatbot
    /\ code_input' = ClearOutputs.code
    /\ question_input' = ClearOutputs.question
    /\ last_event' = "clear"
    /\ UNCHANGED <<code, question, model_name, history, heap, pc, user_content, messages,
                   response_text, sent, consumed, error, out, history0, emittedAt>>

NextSession ==
    \/ Submit
    \/ chat_gpt_answer_stream
    \/ chat_claude_answer_stream
    \/ chat_llama_answer_stream
    \/ Clear

SpecSession == InitSession /\ [][NextSession]_vars

\* the caller iterates the generator until it is exhausted, and a backend
\* stream delivers finitely many chunks before it ends or raises
FairSpec == Spec /\ WF_vars(Next)

\* ------------------------------------------------------ vocabulary of claims
Recognized == model_name \in Backends

UserTurn(body) == [role |-> "user", content |-> body]
AssistantTurn(body) == [role |-> "assistant", content |-> body]

\* body of the last turn of a conversation
LastBody(conv) == conv[Len(conv)].content

\* the chunks adapter b takes as text fragments, in arrival order
TextFragments(b, cs) == SelectSeq(cs, LAMBDA c : Accepts(b, c))

\* the chunks that carry text, whatever the adapter
TextChunks(cs) == SelectSeq(cs, LAMBDA c : c.kind = "text")

RECURSIVE Concat(_)
Concat(cs) == IF cs = <<>> THEN <<>> ELSE Head(cs).text \o Concat(Tail(cs))

\* the label each backend's failures are shown under, as the spec names it
ErrorLabel(b, e) ==
    CASE b = "GPT" -> <<"GPT Error: ">> \o e
      [] b = "Claude" -> <<"Claude Error: ">> \o e
      [] b = "Llama" -> <<"Llama Error: ">> \o e

\* streaming calls opened on backend b
Calls(b) == Cardinality({i \in 1..Len(sent) : sent[i].backend = b})

\* t is s without its leading and trailing whitespace
IsTrimOf(t, s) ==
    \E i, j \in 0..Len(s) :
        /\ i + j <= Len(s)
        /\ t = SubSeq(s, i + 1, Len(s) - j)
        /\ \A k \in 1..i : s[k] \in Whitespace
        /\ \A k \in (Len(s) - j + 1)..Len(s) : s[k] \in Whitespace
        /\ t # <<>> => (t[1] \notin Whitespace /\ t[Len(t)] \notin Whitespace)

\* ------------------------------------------------------------------- claims

\* C1: for a recognized backend, every emitted snapshot is the input history
\* followed by exactly one user turn carrying the composed user content and
\* exactly one assistant turn, whatever the history and however the stream ends.
C1_OnePairPerSnapshot ==
    Recognized =>
        \A k \in 1..Len(out) :
            LET snap == emittedAt[k]
                n == Len(history0)
            IN  /\ Len(snap) = n + 2
                /\ SubSeq(snap, 1, n) = history0
                /\ snap[n + 1] = UserTurn(UserContent(model_name, code, question))
                /\ snap[n + 2].role = "assistant"

C1_Witness ==
    /\ Recognized
    /\ history0 # <<>>
    /\ Len(out) >= 2
    /\ error # <<>>
    /\ pc = "done"

\* C2: with code and question both empty and a recognized backend, no
\* streaming call is opened and no snapshot (hence no turn) is emitted.
C2_EmptyRequestIsNoOp ==
    (Recognized /\ code = <<>> /\ question = <<>>) => (sent = <<>> /\ out = <<>>)

\* C3: while the stream has not failed, the k-th snapshot's assistant body is
\* the concatenation, in arrival order, of the first k text fragments the
\* adapter took from the backend, there is one snapshot per such fragment, and
\* the last snapshot's body is the concatenation of all text the stream carried.
C3_BodyIsRunningConcatenation ==
    (Recognized /\ error = <<>>) =>
        LET frags == TextFragments(model_name, consumed)
        IN  /\ Len(out) = Len(frags)
            /\ \A k \in 1..Len(out) : LastBody(emittedAt[k]) = Concat(SubSeq(frags, 1, k))
            /\ out # <<>> => LastBody(emittedAt[Len(out)]) = Concat(TextChunks(consumed))

C3_Witness ==
    /\ Recognized
    /\ error = <<>>
    /\ pc = "done"
    /\ Len(out) = 2
    /\ LastBody(emittedAt[1]) = <<"b">>
    /\ LastBody(emittedAt[2]) = <<"b", "c">>

\* C4: after a failure that follows N delivered fragments, the final
\* snapshot's assistant body is those N fragments followed by the error label.
C4_ErrorAppendedAfterText ==
    (Recognized /\ error # <<>> /\ out # <<>>) =>
        LastBody(emittedAt[Len(out)]) =
            Concat(TextFragments(model_name, consumed)) \o ErrorLabel(model_name, error[1])

\* C5: no exception leaves chat_router; when the backend raises (opening the
\* stream, iterating it, or on a malformed chunk) exactly one more snapshot is
\* emitted, its assistant body is the backend's error label, and nothing is
\* emitted after it.
C5_FailureBecomesOneErrorTurn ==
    /\ [](pc # "raised")
    /\ []((Recognized /\ error # <<>>) =>
            /\ pc \in {"last", "done"}
            /\ out # <<>>
            /\ LastBody(emittedAt[Len(out)]) = ErrorLabel(model_name, error[1]))
    /\ [][(error = <<>> /\ error' # <<>>) => Len(out') = Len(out) + 1]_vars
    /\ [][error # <<>> => (out' = out /\ pc' = "done")]_vars

C5_Witness ==
    /\ Recognized
    /\ error # <<>>
    /\ pc = "done"
    /\ consumed = <<>>
    /\ Len(out) = 1

\* C6: for a selector that is none of the three recognized names, exactly one
\* snapshot is emitted, equal to the input history followed by one assistant
\* turn "Unknown model selected."; no user content is composed and no
\* backend is called.
C6_UnknownSelector ==
    ~Recognized =>
        /\ sent = <<>>
        /\ consumed = <<>>
        /\ user_content = Unbound
        /\ Len(out) = (IF pc = "start" THEN 0 ELSE 1)
        /\ \A k \in 1..Len(out) :
               emittedAt[k] = history0 \o << AssistantTurn(UnknownModelText) >>

C6_Witness ==
    /\ model_name = "gpt"
    /\ code # <<>>
    /\ history0 # <<>>
    /\ pc = "done"
    /\ Len(out) = 1

\* C7: the list passed as history holds the same turns throughout the call,
\* and no emitted conversation is that list.
C7_InputHistoryUntouched ==
    /\ heap[history] = history0
    /\ \A k \in 1..Len(out) : out[k].history # history

\* C8: every emitted snapshot still has, at any later moment, the content it
\* had when it was emitted.
C8_SnapshotsNeverAltered ==
    \A k \in 1..Len(out) : heap[out[k].history] = emittedAt[k]

C8_Witness ==
    /\ Len(out) >= 2
    /\ error # <<>>
    /\ pc = "done"
    /\ emittedAt[1] # emittedAt[2]

\* C9: for a recognized selector one streaming call is opened, on the backend
\* the selector names and on no other; after a failure no call is opened and
\* no chunk is consumed.
C9_OneCallNoRetry ==
    /\ [](Recognized =>
            /\ Calls(model_name) = (IF pc = "start" THEN 0 ELSE 1)
            /\ \A b \in Backends \ {model_name} : Calls(b) = 0)
    /\ [][error # <<>> => (sent' = sent /\ consumed' = consumed)]_vars

C9_Witness ==
    /\ Recognized
    /\ error # <<>>
    /\ consumed # <<>>
    /\ pc = "done"
    /\ Calls(model_name) = 1

\* C10: the three adapters compose the same user content from (code,
\* question): the fenced block around the trimmed code when code is non-empty,
\* then the trimmed question when question is non-empty (the trimmed question
\* alone when code is empty); every snapshot's user turn carries it.
C10_UserContent ==
    LET uc == gpt_user_content(code, question)
    IN  /\ claude_user_content(code, question) = uc
        /\ llama_user_content(code, question) = uc
        /\ \E tc \in CodeStrings :
               /\ IsTrimOf(tc, code)
               /\ \E tq \in QuestionStrings :
                      /\ IsTrimOf(tq, question)
                      /\ uc = (IF code # <<>>
                               THEN <<"Please explain this code:\n\n", Fence, "python\n">>
                                        \o tc \o <<"\n", Fence, "\n\n">>
                               ELSE <<>>)
                              \o (IF question # <<>> THEN tq ELSE <<>>)
        /\ Recognized =>
               \A k \in 1..Len(out) : emittedAt[k][Len(history0) + 1] = UserTurn(uc)

C10_Witness ==
    /\ Recognized
    /\ code = <<" ", "x">>
    /\ question = <<"x">>
    /\ Len(out) >= 1
    /\ emittedAt[1][Len(history0) + 1].content = CodeIntro \o <<"x">> \o CodeOutro \o <<"x">>

\* the chunks that carry a non-empty text
NonEmptyTextChunks(cs) == SelectSeq(cs, LAMBDA c : c.kind = "text" /\ c.text # <<>>)

\* C11: the message list of every streaming call holds the prior history
\* turns as role/content pairs in their order, then the new user message as
\* its last element; GPT and Llama have the system prompt as first element,
\* Claude gets it as a separate field and never in the list.
C11_MessagesSent ==
    \A i \in 1..Len(sent) :
        LET m == sent[i].messages
            off == IF sent[i].backend = "Claude" THEN 0 ELSE 1
            n == Len(history0)
        IN  /\ Len(m) = off + n + 1
            /\ off = 1 => m[1] = [role |-> "system", content |-> SYSTEM_PROMPT]
            /\ \A k \in 1..n :
                   m[off + k] = [role |-> history0[k].role, content |-> history0[k].content]
            /\ m[Len(m)] = UserTurn(UserContent(sent[i].backend, code, question))
            /\ sent[i].backend = "Claude" =>
                   /\ sent[i].system = SYSTEM_PROMPT
                   /\ \A k \in 1..Len(m) : m[k].role # "system"

\* C13: for a stream that has not failed, only chunks with a non-empty text
\* produce a snapshot, so each snapshot's assistant body is strictly longer
\* than that of the snapshot before it.
C13_OnlyNonEmptyDeltas ==
    (Recognized /\ error = <<>>) =>
        /\ Len(out) = Len(NonEmptyTextChunks(consumed))
        /\ \A k \in 2..Len(out) :
               Len(LastBody(emittedAt[k])) > Len(LastBody(emittedAt[k - 1]))

C16_InputsClearedByEveryEmission ==
    /\ \A k \in 1..Len(out) : out[k].code = <<>> /\ out[k].question = <<>>
    /\ out # <<>> => (code_input = <<>> /\ question_input = <<>>)
    /\ out = <<>> => (code_input = code /\ question_input = question)

C16_Witness ==
    /\ code # <<>>
    /\ question # <<>>
    /\ Len(out) >= 2
    /\ error # <<>>
    /\ code_input = <<>>

\* C15: the snapshot sequence is finite: a request whose stream delivered n
\* chunks has emitted at most n + 1 snapshots, nothing is emitted after the
\* error snapshot or after the generator has finished, and the generator
\* does finish.
C15_FiniteSequence ==
    /\ [](Len(out) <= Len(consumed) + 1)
    /\ [][error # <<>> => out' = out]_vars
    /\ [][pc = "done" => out' = out]_vars
    /\ <>(pc = "done")

C15_Witness ==
    /\ pc = "done"
    /\ error # <<>>
    /\ Len(consumed) = MaxChunks - 1
    /\ Len(out) = Len(consumed) + 1

\* user, assistant, user, assistant, ...: even length, starting with a user turn
Alternating(conv) ==
    /\ Len(conv) % 2 = 0
    /\ \A i \in 1..Len(conv) : conv[i].role = (IF i % 2 = 1 THEN "user" ELSE "assistant")

\* C12: whatever the session has done before, right after Clear the displayed
\* conversation is empty and the code and question fields are empty.
C12_ClearEmptiesEverything ==
    last_event = "clear" =>
        /\ chatbot = <<>>
        /\ code_input = <<>>
        /\ question_input = <<>>

\* Clear pressed on a displayed conversation, while a later request with
\* typed input is still running
C12_Witness ==
    /\ last_event = "clear"
    /\ history0 # <<>>
    /\ code # <<>>
    /\ question # <<>>
    /\ pc = "iter"
    /\ out = <<>>
    /\ chatbot = <<>>

\* C17: in a session of serialized submissions to recognized backends and of
\* clears, the displayed conversation, and every conversation emitted, has
\* even length and alternates user, assistant, ... starting with a user turn.
C17_DisplayedConversationAlternates ==
    /\ Alternating(chatbot)
    /\ \A k \in 1..Len(emittedAt) : Alternating(emittedAt[k])

C17_Witness ==
    /\ last_event = "yield"
    /\ Len(chatbot) = 4
    /\ error # <<>>
    /\ LastBody(history0) = <<>>

====
